---- MODULE Spec2Model ----
(***************************************************************************)
(* Model of ezdxf/entities/dxfgfx.py: the entity linker (entity_linker and *)
(* its closure entity_linker_) and the base class DXFGraphic (set_owner,   *)
(* the capability-gated geometric operations).                             *)
(***************************************************************************)
EXTENDS Integers, Sequences, FiniteSets, TLC

\* ------------------------------------------------------------------ bounds

\* Longest stream fed to the single linker of Spec.
MaxFeed == 4

\* Longest stream fed to each of the two linkers of SpecTwo.
MaxFeedTwo == 2

\* Number of graphical entities of SpecOwner and SpecGeo.
NumEnts == 3

\* ------------------------------------------------------------- linker state

VARIABLES
    main_entity,  \* closure cell -> the open parent, or None
    prev,         \* closure cell -> the preceding entity, or None
    expected,     \* closure cell -> the expected child kind ("" initially)
    fed,          \* linker -> the entities passed to entity_linker_ so far
    outcomes,     \* linker -> per call: returned True/False or raised
    calls,        \* linker -> the link_entity/link_seqend calls made, in order
    after,        \* linker -> the nonlocals as each call left them
    ended         \* linker -> the caller has stopped feeding the linker

linkerVars ==
    <<main_entity, prev, expected, fed, outcomes, calls, after, ended>>

\* --------------------------------------------------------- DXFGraphic state

VARIABLES
    dxf,       \* entity -> its DXF namespace: attribute -> {} (unset) or {value}
    linked,    \* entity -> what its linked_entities() yields
    attached,  \* entity -> what its attached_entities() yields
    lastcall,  \* the last method called on an entity, with its arguments
    error      \* the exception that call raised, or NoExc

gfxVars == <<dxf, linked, attached, lastcall, error>>

\* ---------------------------------------- state of the AcDbEntity subclass

VARIABLES
    ns,         \* self.dxf of one entity: its (name, value) items as stored
    processor,  \* the processor load_dxf_attribs was called with
    tagwriter,  \* the tagwriter export_acdb_entity wrote to, and its tags
    logged,     \* the log_unprocessed_tags calls made, in order
    assigned,   \* the last values written through rgb and through dxf.color
    audited     \* the calls audit made, in order, with what each check found

acdbVars == <<ns, processor, tagwriter, logged, assigned, audited>>

vars == <<linkerVars, gfxVars, acdbVars>>

\* The linkers created by entity_linker(): each call creates one closure.
Linkers == {1, 2}

\* Python's None for an entity reference.
None == [id |-> 0, kind |-> "None", attribs_follow |-> {}, handle |-> "None"]

\* Python's None for dxf.handle.
NoHandle == "None"

\* The entities a stream can hold, up to identity: dxftype(), the value of
\* dxf.attribs_follow ({} when the attribute is absent) and dxf.handle.
Shapes ==
    [kind : {"INSERT"}, attribs_follow : {{}, {0}, {1}}, handle : {"H"}]
    \cup [kind : {"POLYLINE", "ATTRIB", "VERTEX", "SEQEND", "LINE"},
          attribs_follow : {{}}, handle : {"H"}]
    \cup [kind : {"MTEXT"}, attribs_follow : {{}}, handle : {NoHandle, "H"}]

\* The shapes fed to the two linkers of SpecTwo.
ShapesTwo == {s \in Shapes : s.kind \in {"INSERT", "ATTRIB", "SEQEND", "MTEXT", "LINE"}
                                /\ s.handle = IF s.kind = "MTEXT" THEN NoHandle ELSE "H"}

\* The n-th entity fed to a linker: the object identity is its position.
Entity(n, s) ==
    [id |-> n, kind |-> s.kind, attribs_follow |-> s.attribs_follow,
     handle |-> s.handle]

LINKED_ENTITIES == [k \in {"INSERT", "POLYLINE"} |->
                        IF k = "INSERT" THEN "ATTRIB" ELSE "VERTEX"]

\* No exception.
NoExc == [type |-> "None", text |-> <<>>]

\* DXFStructureError(message); the message is kept as its pieces, the piece
\* substituted by str.format() among them.
DXFStructureError(text) == [type |-> "DXFStructureError", text |-> text]

\* A recorded call host.method(arg).
Call(host, method, arg) == [host |-> host.id, method |-> method, arg |-> arg.id]

\* dxf.get(name, default) on an attribute stored as a set of at most one value.
Get(attr, default) == IF attr = {} THEN default ELSE CHOOSE v \in attr : TRUE

\* The closure cell holding the nonlocal variables of linker i: each call of
\* entity_linker() has its own main_entity, prev and expected.
ClosureShared(i) == 1

Closure(i) == i

\* The state of a cell as a record.
CellState(c) ==
    [main_entity |-> main_entity[c], expected |-> expected[c], prev |-> prev[c]]

\* entity_linker_ leaves by an exception: the nonlocals keep their values.
Raised(st, exc) ==
    [main_entity |-> st.main_entity, expected |-> st.expected, prev |-> st.prev,
     ret |-> "raise", exc |-> exc, calls |-> <<>>]

\* entity_linker_ reaches `prev = entity; return are_linked_entities`.
Returned(main, expd, entity, are_linked_entities, made) ==
    [main_entity |-> main, expected |-> expd, prev |-> entity,
     ret |-> IF are_linked_entities THEN "True" ELSE "False",
     exc |-> NoExc, calls |-> made]

\* SEQEND while a parent is open: link_seqend, then main_entity = None.
CloseParentKeepOpen(st, entity) ==
    Returned(st.main_entity, st.expected, entity, TRUE,
             <<Call(st.main_entity, "link_seqend", entity)>>)

CloseParent(st, entity) ==
    Returned(None, st.expected, entity, TRUE,
             <<Call(st.main_entity, "link_seqend", entity)>>)

\* The expected child kind while a parent is open: link_entity.
LinkChildClosing(st, entity) ==
    Returned(None, st.expected, entity, TRUE,
             <<Call(st.main_entity, "link_entity", entity)>>)

LinkChild(st, entity) ==
    Returned(st.main_entity, st.expected, entity, TRUE,
             <<Call(st.main_entity, "link_entity", entity)>>)

\* Any other kind while a parent is open.
IllegalChildAccepted(st, entity) ==
    Returned(st.main_entity, st.expected, entity, TRUE,
             <<Call(st.main_entity, "link_entity", entity)>>)

\* IllegalChild that gives up the parent before it raises.
IllegalChildClosesParent(st, entity) ==
    Raised([st EXCEPT !.main_entity = None],
           DXFStructureError(
               <<"expected DXF entity ", entity.kind, " or ", "SEQEND">>))

IllegalChild(st, entity) ==
    Raised(st, DXFStructureError(
                   <<"expected DXF entity ", entity.kind, " or ", "SEQEND">>))

\* `not entity.dxf.get('attribs_follow', 0)` is false.
AttribsFollowIgnored(entity) == TRUE

AttribsFollow(entity) == Get(entity.attribs_follow, 0) /= 0

\* INSERT with attribs_follow, or POLYLINE: open the parent.
\* OpenParent that leaves prev as it was.
OpenParentKeepsPrev(st, entity) ==
    [main_entity |-> entity, expected |-> LINKED_ENTITIES[entity.kind],
     prev |-> st.prev, ret |-> "False", exc |-> NoExc, calls |-> <<>>]

\* OpenParent that expects ATTRIB whatever the parent is.
OpenParentExpectsAttrib(st, entity) ==
    Returned(entity, "ATTRIB", entity, FALSE, <<>>)

OpenParent(st, entity) ==
    Returned(entity, LINKED_ENTITIES[entity.kind], entity, FALSE, <<>>)

\* MTEXT without handle: attach to the preceding entity, if there is one.
AttachToFirst(st, entity) ==
    IF st.prev /= None
    THEN Returned(st.main_entity, st.expected, entity, TRUE,
                  <<Call([st.prev EXCEPT !.id = 1], "link_entity", entity)>>)
    ELSE Raised(st, DXFStructureError(
                        <<"Attached MTEXT entity without a preceding entity.">>))

\* AttachMText that returns False although it attached the MTEXT.
AttachMTextTopLevel(st, entity) ==
    IF st.prev /= None
    THEN Returned(st.main_entity, st.expected, entity, FALSE,
                  <<Call(st.prev, "link_entity", entity)>>)
    ELSE Raised(st, DXFStructureError(
                        <<"Attached MTEXT entity without a preceding entity.">>))

AttachMText(st, entity) ==
    IF st.prev /= None
    THEN Returned(st.main_entity, st.expected, entity, TRUE,
                  <<Call(st.prev, "link_entity", entity)>>)
    ELSE Raised(st, DXFStructureError(
                        <<"Attached MTEXT entity without a preceding entity.">>))

\* entity_linker_ that takes a SEQEND, ATTRIB or VERTEX met with no parent
\* open for a structural error.
entity_linker_Strict(st, entity) ==
    IF st.main_entity /= None
    THEN IF entity.kind = "SEQEND" THEN CloseParent(st, entity)
         ELSE IF entity.kind = st.expected THEN LinkChild(st, entity)
         ELSE IllegalChild(st, entity)
    ELSE IF entity.kind \in {"SEQEND", "ATTRIB", "VERTEX"}
    THEN Raised(st, DXFStructureError(
                        <<"unexpected DXF entity ", entity.kind>>))
    ELSE IF entity.kind \in DOMAIN LINKED_ENTITIES
    THEN IF entity.kind = "INSERT" /\ ~AttribsFollow(entity)
         THEN Returned(st.main_entity, st.expected, entity, FALSE, <<>>)
         ELSE OpenParent(st, entity)
    ELSE IF entity.kind = "MTEXT" /\ entity.handle = NoHandle
    THEN AttachMText(st, entity)
    ELSE Returned(st.main_entity, st.expected, entity, FALSE, <<>>)

\* The closure entity_linker_(entity) as a function of the nonlocals.
entity_linker_(st, entity) ==
    IF st.main_entity /= None
    THEN IF entity.kind = "SEQEND" THEN CloseParent(st, entity)
         ELSE IF entity.kind = st.expected THEN LinkChild(st, entity)
         ELSE IllegalChild(st, entity)
    ELSE IF entity.kind \in DOMAIN LINKED_ENTITIES
    THEN IF entity.kind = "INSERT" /\ ~AttribsFollow(entity)
         THEN Returned(st.main_entity, st.expected, entity, FALSE, <<>>)
         ELSE OpenParent(st, entity)
    ELSE IF entity.kind = "MTEXT" /\ entity.handle = NoHandle
    THEN AttachMText(st, entity)
    ELSE Returned(st.main_entity, st.expected, entity, FALSE, <<>>)

\* entity_linker(): a fresh closure.
InitLinker ==
    /\ main_entity = [c \in Linkers |-> None]
    /\ prev = [c \in Linkers |-> None]
    /\ expected = [c \in Linkers |-> ""]
    /\ fed = [i \in Linkers |-> <<>>]
    /\ outcomes = [i \in Linkers |-> <<>>]
    /\ calls = [i \in Linkers |-> <<>>]
    /\ after = [i \in Linkers |-> <<>>]
    /\ ended = [i \in Linkers |-> FALSE]

\* One call of linker i on the next entity of its stream, at most `bound` calls.
Feed(i, s, bound) ==
    /\ ~ended[i]
    /\ Len(fed[i]) < bound
    /\ LET entity == Entity(Len(fed[i]) + 1, s)
           c == Closure(i)
           r == entity_linker_(CellState(c), entity)
       IN /\ main_entity' = [main_entity EXCEPT ![c] = r.main_entity]
          /\ expected' = [expected EXCEPT ![c] = r.expected]
          /\ prev' = [prev EXCEPT ![c] = r.prev]
          /\ fed' = [fed EXCEPT ![i] = Append(@, entity)]
          /\ outcomes' = [outcomes EXCEPT ![i] =
                              Append(@, [ret |-> r.ret, exc |-> r.exc])]
          /\ calls' = [calls EXCEPT ![i] = @ \o r.calls]
          /\ after' = [after EXCEPT ![i] =
                           Append(@, [main_entity |-> r.main_entity,
                                      expected |-> r.expected,
                                      prev |-> r.prev])]
          /\ UNCHANGED <<ended, gfxVars, acdbVars>>

\* The stream of linker i ends: the caller makes no further call. The closure
\* has no operation for it, so nothing runs and nothing is raised.
EndStream(i) ==
    /\ ~ended[i]
    /\ ended' = [ended EXCEPT ![i] = TRUE]
    /\ UNCHANGED <<main_entity, prev, expected, fed, outcomes, calls, after,
                   gfxVars, acdbVars>>

\* ------------------------------------------------------------- DXFGraphic

\* The graphical entities of a drawing.
Ents == 1..NumEnts

\* DXFTYPE of each entity: the base class ('DXFGFX') or SeqEnd ('SEQEND').
DXFTYPE == [e \in Ents |-> IF e % 2 = 1 THEN "DXFGFX" ELSE "SEQEND"]

\* Owner handles passed to set_owner.
Owners == {"A", "B"}

\* Values of the paperspace argument and of the ignore argument.
PaperspaceFlags == {0, 1}

\* DXFUnsupportedFeature(self.DXFTYPE).
DXFUnsupportedFeature(dxftype) ==
    [type |-> "DXFUnsupportedFeature", text |-> <<dxftype>>]

\* The namespace of a new entity: DEFAULT_ATTRIBS, no owner.
NewNamespace == [owner |-> {}, paperspace |-> {}, layer |-> {"0"}, color |-> {}]

NoCall == [op |-> "none", e |-> 0, ignore |-> FALSE, owner |-> "", paperspace |-> 0]

GeoCall(op, e, ignore) ==
    [op |-> op, e |-> e, ignore |-> ignore, owner |-> "", paperspace |-> 0]

\* The linked and attached children are what the subclasses' linked_entities()
\* and attached_entities() yield: each entity but the first has at most one
\* host, an earlier entity, to which it is linked or attached.
Hosts == [Ents -> [host : 0..NumEnts, rel : {"linked", "attached"}]]

ChildrenOf(h, e, rel) ==
    LET RECURSIVE Up(_)
        Up(n) == IF n > NumEnts THEN <<>>
                 ELSE IF h[n].host = e /\ h[n].rel = rel THEN <<n>> \o Up(n + 1)
                 ELSE Up(n + 1)
    IN Up(1)

\* No DXFGraphic method has been called: the linker specifications.
GfxIdle ==
    /\ dxf = [e \in Ents |-> NewNamespace]
    /\ linked = [e \in Ents |-> <<>>]
    /\ attached = [e \in Ents |-> <<>>]
    /\ lastcall = NoCall
    /\ error = NoExc

\* A drawing of new entities with their children.
InitGfx ==
    /\ \E h \in Hosts :
           /\ \A e \in Ents : h[e].host < e /\ (h[e].host = 0 => h[e].rel = "linked")
           /\ linked = [e \in Ents |-> ChildrenOf(h, e, "linked")]
           /\ attached = [e \in Ents |-> ChildrenOf(h, e, "attached")]
    /\ dxf = [e \in Ents |-> NewNamespace]
    /\ lastcall = NoCall
    /\ error = NoExc

linked_entities(e) == linked[e]

attached_entities(e) == attached[e]

\* self.dxf.owner = owner, and paperspace set or discarded, on one entity.
AssignOwner(d, e, owner, paperspace) ==
    [d EXCEPT ![e].owner = {owner},
              ![e].paperspace = IF paperspace /= 0 THEN {paperspace} ELSE {}]

\* set_owner on the entity alone: the loop over linked_entities() left out.
SetOwnerShallow(d, e, owner, paperspace) == AssignOwner(d, e, owner, paperspace)

RECURSIVE SetOwner(_, _, _, _)
RECURSIVE SetOwnerEach(_, _, _, _)

\* for e in self.linked_entities(): e.set_owner(owner, paperspace)
SetOwnerEach(d, children, owner, paperspace) ==
    IF children = <<>> THEN d
    ELSE SetOwnerEach(SetOwner(d, Head(children), owner, paperspace),
                      Tail(children), owner, paperspace)

\* DXFGraphic.set_owner as a function of the namespaces.
SetOwner(d, e, owner, paperspace) ==
    SetOwnerEach(AssignOwner(d, e, owner, paperspace), linked_entities(e),
                 owner, paperspace)

set_owner(e, owner, paperspace) ==
    /\ dxf' = SetOwner(dxf, e, owner, paperspace)
    /\ lastcall' = [op |-> "set_owner", e |-> e, ignore |-> FALSE,
                    owner |-> owner, paperspace |-> paperspace]
    /\ error' = NoExc
    /\ UNCHANGED <<linked, attached, linkerVars, acdbVars>>

\* ------------------------------------------------- the AcDbEntity subclass

\* The DXF versions of ezdxf.lldxf.const, oldest first.
DXFVersions == <<"DXF12", "DXF2000", "DXF2004", "DXF2007">>

DXF12 == "DXF12"

\* a > b on DXF versions.
Newer(a, b) ==
    \E m, n \in 1..Len(DXFVersions) :
        DXFVersions[m] = a /\ DXFVersions[n] = b /\ m > n

\* DXFAttr(code, default=..., dxfversion=..., optional=...); no default is {},
\* no dxfversion is DXF12. Values are kept as the text of their tags.
DXFAttr(code, default, dxfversion, optional) ==
    [code |-> code, default |-> default, dxfversion |-> dxfversion,
     optional |-> optional]

acdb_entity ==
    [name |-> "AcDbEntity",
     attribs |->
         ("layer" :> DXFAttr(8, {"0"}, DXF12, FALSE)) @@
         ("linetype" :> DXFAttr(6, {"BYLAYER"}, DXF12, TRUE)) @@
         ("color" :> DXFAttr(62, {"256"}, DXF12, TRUE)) @@
         ("paperspace" :> DXFAttr(67, {"0"}, DXF12, TRUE)) @@
         ("lineweight" :> DXFAttr(370, {"-1"}, "DXF2000", TRUE)) @@
         ("ltscale" :> DXFAttr(48, {"1.0"}, "DXF2000", TRUE)) @@
         ("invisible" :> DXFAttr(60, {"0"}, "DXF2000", TRUE)) @@
         ("true_color" :> DXFAttr(420, {}, "DXF2004", TRUE)) @@
         ("color_name" :> DXFAttr(430, {}, "DXF2004", TRUE)) @@
         ("transparency" :> DXFAttr(440, {}, "DXF2004", TRUE)) @@
         ("shadow_mode" :> DXFAttr(284, {}, "DXF2007", TRUE)) @@
         ("material_handle" :> DXFAttr(347, {}, "DXF2007", TRUE)) @@
         ("plotstyle_handle" :> DXFAttr(390, {}, "DXF2007", TRUE))]

\* The group code of the subclass marker tag.
SUBCLASS_MARKER == 100

\* A DXF tag (group code, value).
Tag(code, value) == [code |-> code, value |-> value]

\* The attribute names of a subclass that are stored under a group code.
NamesOfCode(subclass, code) ==
    {name \in DOMAIN subclass.attribs : subclass.attribs[name].code = code}

\* DXFNamespace, a dict in insertion order: hasattr, get, set.
NsHas(d, name) == \E n \in 1..Len(d) : d[n].name = name

NsGet(d, name) ==
    {d[n].value : n \in {m \in 1..Len(d) : d[m].name = name}}

NsSet(d, name, value) ==
    IF NsHas(d, name)
    THEN [n \in 1..Len(d) |->
             IF d[n].name = name THEN [name |-> name, value |-> value]
             ELSE d[n]]
    ELSE Append(d, [name |-> name, value |-> value])

\* The namespace after the tags a subclass knows were stored, tag by tag.
RECURSIVE StoreTags(_, _, _)
StoreTags(d, tags, subclass) ==
    IF tags = <<>> THEN d
    ELSE LET t == Head(tags)
             names == NamesOfCode(subclass, t.code)
         IN StoreTags(IF names = {} THEN d
                      ELSE NsSet(d, CHOOSE name \in names : TRUE, t.value),
                      Tail(tags), subclass)

\* processor.load_dxfattribs_into_namespace(dxf, subclass): the namespace
\* with the known tags stored, and the tags of unknown group codes.
load_dxfattribs_into_namespace(d, tags, subclass) ==
    [dxf |-> StoreTags(d, tags, subclass),
     unprocessed |->
         SelectSeq(tags, LAMBDA t : NamesOfCode(subclass, t.code) = {})]

\* The processors: none, or the tags of the entity and the r12 flag.
NoProcessor == [given |-> "None", tags |-> <<>>, r12 |-> FALSE]

NotLoaded == [given |-> "not loaded", tags |-> <<>>, r12 |-> FALSE]

SubclassProcessor(tags, r12) == [given |-> "yes", tags |-> tags, r12 |-> r12]

\* The most tags a processor holds.
MaxTags == 3

UnknownCodes == {999}

TagValues == {"1", "2"}

\* The attributes the tags set: a required one, optional ones of DXF12,
\* DXF2000, DXF2004 and DXF2007.
TagNames == {"layer", "color", "invisible", "true_color", "material_handle"}

KnownCodes == {acdb_entity.attribs[name].code : name \in TagNames}

\* Tag lists in which no known group code occurs twice.
TagLists ==
    {tags \in UNION {[1..n -> [code : KnownCodes \union UnknownCodes,
                               value : TagValues]] : n \in 0..MaxTags} :
        \A m, n \in 1..Len(tags) :
            (m /= n /\ tags[m].code = tags[n].code) =>
                tags[m].code \in UnknownCodes}

NoWriter == [dxfversion |-> "None", tags |-> <<>>]

NoAssignment == [op |-> "none", rgb |-> {}, color |-> {}]

\* An entity whose AcDbEntity subclass has not been touched.
AcdbIdle ==
    /\ ns = <<>>
    /\ processor = NotLoaded
    /\ tagwriter = NoWriter
    /\ logged = <<>>
    /\ assigned = NoAssignment
    /\ audited = <<>>

\* load_dxf_attribs that logs the unprocessed tags of an R12 entity too.
load_dxf_attribsLoggingR12(p) ==
    /\ processor = NotLoaded
    /\ tagwriter = NoWriter
    /\ processor' = p
    /\ IF p = NoProcessor
       THEN UNCHANGED <<ns, logged>>
       ELSE LET loaded == load_dxfattribs_into_namespace(ns, p.tags, acdb_entity)
            IN /\ ns' = loaded.dxf
               /\ logged' =
                      IF Len(loaded.unprocessed) > 0
                      THEN Append(logged, [tags |-> loaded.unprocessed,
                                           subclass |-> acdb_entity.name])
                      ELSE logged
    /\ UNCHANGED <<tagwriter, assigned, audited, linkerVars, gfxVars>>

\* DXFGraphic.load_dxf_attribs(processor) on a new entity.
load_dxf_attribs(p) ==
    /\ processor = NotLoaded
    /\ tagwriter = NoWriter
    /\ processor' = p
    /\ IF p = NoProcessor
       THEN UNCHANGED <<ns, logged>>
       ELSE LET loaded == load_dxfattribs_into_namespace(ns, p.tags, acdb_entity)
            IN /\ ns' = loaded.dxf
               /\ logged' =
                      IF Len(loaded.unprocessed) > 0 /\ ~p.r12
                      THEN Append(logged, [tags |-> loaded.unprocessed,
                                           subclass |-> acdb_entity.name])
                      ELSE logged
    /\ UNCHANGED <<tagwriter, assigned, audited, linkerVars, gfxVars>>

\* dxf.export_dxf_attribs(tagwriter, attribs): the tags written for the named
\* attributes, in the order they are named.
RECURSIVE export_dxf_attribs(_, _, _)
export_dxf_attribs(d, dxfversion, attribs) ==
    IF attribs = <<>> THEN <<>>
    ELSE LET name == Head(attribs)
             attrib == acdb_entity.attribs[name]
             value == IF NsHas(d, name) THEN NsGet(d, name) ELSE attrib.default
             skip == \/ ~NsHas(d, name) /\ attrib.optional
                     \/ Newer(attrib.dxfversion, dxfversion)
                     \/ value = {}
         IN (IF skip THEN <<>>
             ELSE <<Tag(attrib.code, CHOOSE v \in value : TRUE)>>)
            \o export_dxf_attribs(d, dxfversion, Tail(attribs))

\* The attributes in the order acdb_entity declares them.
ExportOrderAsDeclared ==
    <<"layer", "linetype", "color", "paperspace", "lineweight", "ltscale",
      "true_color", "color_name", "transparency", "shadow_mode",
      "material_handle", "plotstyle_handle">>

\* The attributes export_acdb_entity names, in its order.
ExportOrder ==
    <<"layer", "linetype", "material_handle", "color", "paperspace",
      "lineweight", "ltscale", "true_color", "color_name", "transparency",
      "plotstyle_handle", "shadow_mode">>

\* DXFGraphic.export_acdb_entity(tagwriter), tagwriter.dxfversion given.
export_acdb_entity(dxfversion) ==
    /\ tagwriter = NoWriter
    /\ tagwriter' =
           [dxfversion |-> dxfversion,
            tags |-> (IF Newer(dxfversion, DXF12)
                      THEN <<Tag(SUBCLASS_MARKER, acdb_entity.name)>>
                      ELSE <<>>)
                     \o export_dxf_attribs(ns, dxfversion, ExportOrder)]
    /\ UNCHANGED <<ns, processor, logged, assigned, audited, linkerVars,
                   gfxVars>>

Init == InitLinker /\ GfxIdle /\ AcdbIdle

Next ==
    \/ \E s \in Shapes : Feed(1, s, MaxFeed)
    \/ EndStream(1)

\* One linker decoding one stream.
Spec == Init /\ [][Next]_vars

NextTwo == \E i \in Linkers, s \in ShapesTwo : Feed(i, s, MaxFeedTwo)

\* Two linkers decoding two streams, their calls interleaved.
SpecTwo == Init /\ [][NextTwo]_vars

InitOwner == InitLinker /\ InitGfx /\ AcdbIdle

NextOwner ==
    \E e \in Ents, owner \in Owners, paperspace \in PaperspaceFlags :
        set_owner(e, owner, paperspace)

\* Entities of a drawing moved between owners.
SpecOwner == InitOwner /\ [][NextOwner]_vars

\* ------------------------------------------ capability-gated operations

\* Arguments of the geometric operations; they are converted into locals
\* (Vector(direction), float(factor), ucs or UCS()) and used no further.
Directions == {<<1, 2, 3>>}

Factors == {2}

Angles == {90}

UCSs == {"None", "ucs"}

Matrices == {"matrix"}

\* Each operation of the base class changes nothing of the entity; `error` is
\* the exception that ends the call, or NoExc.
translate(e, direction, ignore) ==
    /\ error' = IF ~ignore THEN DXFUnsupportedFeature(DXFTYPE[e]) ELSE NoExc
    /\ lastcall' = GeoCall("translate", e, ignore)
    /\ UNCHANGED <<dxf, linked, attached, linkerVars, acdbVars>>

scale(e, factor, ignore) ==
    /\ error' = IF ~ignore THEN DXFUnsupportedFeature(DXFTYPE[e]) ELSE NoExc
    /\ lastcall' = GeoCall("scale", e, ignore)
    /\ UNCHANGED <<dxf, linked, attached, linkerVars, acdbVars>>

scale_xyz(e, sx, sy, sz, ignore) ==
    /\ error' = IF ~ignore THEN DXFUnsupportedFeature(DXFTYPE[e]) ELSE NoExc
    /\ lastcall' = GeoCall("scale_xyz", e, ignore)
    /\ UNCHANGED <<dxf, linked, attached, linkerVars, acdbVars>>

\* rotate that raises whatever `ignore` is.
rotateIgnoringIgnore(e, angle, ucs, ignore) ==
    /\ error' = DXFUnsupportedFeature(DXFTYPE[e])
    /\ lastcall' = GeoCall("rotate", e, ignore)
    /\ UNCHANGED <<dxf, linked, attached, linkerVars, acdbVars>>

rotate(e, angle, ucs, ignore) ==
    /\ error' = IF ~ignore THEN DXFUnsupportedFeature(DXFTYPE[e]) ELSE NoExc
    /\ lastcall' = GeoCall("rotate", e, ignore)
    /\ UNCHANGED <<dxf, linked, attached, linkerVars, acdbVars>>

transform(e, matrix, ignore) ==
    /\ error' = IF ~ignore THEN DXFUnsupportedFeature(DXFTYPE[e]) ELSE NoExc
    /\ lastcall' = GeoCall("transform", e, ignore)
    /\ UNCHANGED <<dxf, linked, attached, linkerVars, acdbVars>>

\* to_wsc that raises an error naming the operation beside the entity kind.
to_wscNamingOperation(e, ucs, ignore) ==
    /\ error' = IF ~ignore
                 THEN [type |-> "DXFUnsupportedFeature",
                       text |-> <<DXFTYPE[e], "to_wsc">>]
                 ELSE NoExc
    /\ lastcall' = GeoCall("to_wsc", e, ignore)
    /\ UNCHANGED <<dxf, linked, attached, linkerVars, acdbVars>>

to_wsc(e, ucs, ignore) ==
    /\ error' = IF ~ignore THEN DXFUnsupportedFeature(DXFTYPE[e]) ELSE NoExc
    /\ lastcall' = GeoCall("to_wsc", e, ignore)
    /\ UNCHANGED <<dxf, linked, attached, linkerVars, acdbVars>>

\* Entities of a drawing with an owner (or none yet), all in the same space.
InitGeo ==
    /\ InitLinker
    /\ \E h \in Hosts :
           /\ \A e \in Ents : h[e].host < e /\ (h[e].host = 0 => h[e].rel = "linked")
           /\ linked = [e \in Ents |-> ChildrenOf(h, e, "linked")]
           /\ attached = [e \in Ents |-> ChildrenOf(h, e, "attached")]
    /\ \E owner \in {{}, {"A"}}, paperspace \in {{}, {1}} :
           /\ owner = {} => paperspace = {}
           /\ dxf = [e \in Ents |->
                        [NewNamespace EXCEPT !.owner = owner,
                                             !.paperspace = paperspace]]
    /\ lastcall = NoCall
    /\ error = NoExc
    /\ AcdbIdle

NextGeo ==
    \E e \in Ents, ignore \in BOOLEAN :
        \/ \E direction \in Directions : translate(e, direction, ignore)
        \/ \E factor \in Factors : scale(e, factor, ignore)
        \/ \E sx \in Factors, sy \in Factors, sz \in Factors :
               scale_xyz(e, sx, sy, sz, ignore)
        \/ \E angle \in Angles, ucs \in UCSs : rotate(e, angle, ucs, ignore)
        \/ \E matrix \in Matrices : transform(e, matrix, ignore)
        \/ \E ucs \in UCSs \ {"None"} : to_wsc(e, ucs, ignore)

\* Geometric operations requested of entities that do not override them.
SpecGeo == InitGeo /\ [][NextGeo]_vars

\* ------------------------------------------------- properties of the linker

\* The nonlocals of a fresh closure.
Fresh == [main_entity |-> None, expected |-> "", prev |-> None]

\* The nonlocals of linker i on entry to its k-th call.
Before(i, k) == IF k = 1 THEN Fresh ELSE after[i][k - 1]

\* An INSERT whose attribs_follow flag is set, or a POLYLINE.
OpensParentShape(e) ==
    \/ e.kind = "INSERT" /\ e.attribs_follow \notin {{}, {0}}
    \/ e.kind = "POLYLINE"

\* An INSERT whose attribs_follow flag is 0 or absent.
FlaglessInsert(e) == e.kind = "INSERT" /\ e.attribs_follow \in {{}, {0}}

\* The child kind of a parent: ATTRIB for INSERT, VERTEX for POLYLINE.
ChildKindOf(p) == IF p.kind = "INSERT" THEN "ATTRIB" ELSE "VERTEX"

HandlelessMText(e) == e.kind = "MTEXT" /\ e.handle = NoHandle

\* The calls of linker i that passed its n-th entity to a host.
CallsWithArg(i, n) == {j \in 1..Len(calls[i]) : calls[i][j].arg = n}

\* Two entities alike in kind, attribs_follow flag and handle presence.
SameShape(a, b) ==
    /\ a.kind = b.kind
    /\ a.attribs_follow = b.attribs_follow
    /\ a.handle = b.handle

\* C1: for a fresh linker fed [P, c1, ..., cn, SEQEND] (P an INSERT with
\* attribs_follow set and the ci ATTRIBs, or P a POLYLINE and the ci
\* VERTEXes), P returns False, every ci and the SEQEND return True, the ci are
\* passed to P.link_entity once each in arrival order, the SEQEND is passed to
\* P.link_seqend, no parent is open after the SEQEND and an ordinary entity
\* that follows is returned as top-level.
C1_ParentChildrenSeqend ==
    LET F == fed[1]
        O == outcomes[1]
        K == calls[1]
    IN (Len(F) >= 1 /\ OpensParentShape(F[1])) =>
        \A m \in 1..Len(F) :
            (\A k \in 2..m : F[k].kind = ChildKindOf(F[1])) =>
                /\ O[1].ret = "False"
                /\ \A k \in 2..m : O[k].ret = "True"
                /\ Len(K) >= m - 1
                /\ \A k \in 1..(m - 1) :
                       K[k] = [host |-> 1, method |-> "link_entity",
                               arg |-> k + 1]
                /\ (Len(F) > m /\ F[m + 1].kind = "SEQEND") =>
                       /\ O[m + 1].ret = "True"
                       /\ Len(K) >= m
                       /\ K[m] = [host |-> 1, method |-> "link_seqend",
                                  arg |-> m + 1]
                       /\ after[1][m + 1].main_entity = None
                       /\ \A j \in 2..(m + 1) :
                              Cardinality(CallsWithArg(1, j)) = 1
                       /\ (Len(F) > m + 1 /\ ~HandlelessMText(F[m + 2])) =>
                              O[m + 2].ret = "False"

\* C1 witness: [INSERT(attribs_follow=1), ATTRIB, ATTRIB, SEQEND] was decoded.
C1_Witness ==
    /\ Len(fed[1]) = 4
    /\ fed[1][1].kind = "INSERT" /\ fed[1][1].attribs_follow = {1}
    /\ fed[1][2].kind = "ATTRIB" /\ fed[1][3].kind = "ATTRIB"
    /\ fed[1][4].kind = "SEQEND"
    /\ Len(calls[1]) = 3
    /\ main_entity[1] = None

\* C2 as claimed: a flagless INSERT fed with no parent open returns False and
\* the entity fed next is classified exactly as if no INSERT had preceded it:
\* as the same entity is classified by a linker fed the same stream without
\* the INSERT.
C2_AsIfNoInsert ==
    \A i \in Linkers, j \in Linkers :
        \A k \in 1..Len(fed[j]) :
            ( /\ Len(fed[i]) >= k + 1
              /\ \A n \in 1..(k - 1) : SameShape(fed[i][n], fed[j][n])
              /\ FlaglessInsert(fed[i][k])
              /\ Before(i, k).main_entity = None
              /\ SameShape(fed[i][k + 1], fed[j][k]) ) =>
                /\ outcomes[i][k].ret = "False"
                /\ outcomes[i][k + 1].ret = outcomes[j][k].ret

\* C2 amended: a flagless INSERT fed with no parent open returns False, is
\* passed nowhere and opens no parent; the entity fed next is classified as
\* by a linker fed the same stream without the INSERT unless it is an MTEXT
\* without handle, which is attached to the INSERT; an ATTRIB that follows
\* returns False, is passed to no link_entity and raises nothing.
C2_FlaglessInsert ==
    \A i \in Linkers :
        \A k \in 1..Len(fed[i]) :
            (FlaglessInsert(fed[i][k]) /\ Before(i, k).main_entity = None) =>
                /\ outcomes[i][k].ret = "False"
                /\ CallsWithArg(i, k) = {}
                /\ after[i][k].main_entity = None
                /\ (Len(fed[i]) >= k + 1) =>
                    /\ HandlelessMText(fed[i][k + 1]) =>
                        /\ outcomes[i][k + 1].ret = "True"
                        /\ \E c \in CallsWithArg(i, k + 1) :
                               calls[i][c].host = k
                    /\ fed[i][k + 1].kind = "ATTRIB" =>
                        /\ outcomes[i][k + 1].ret = "False"
                        /\ CallsWithArg(i, k + 1) = {}
                    /\ ~HandlelessMText(fed[i][k + 1]) =>
                        \A j \in Linkers :
                            ( /\ Len(fed[j]) >= k
                              /\ \A n \in 1..(k - 1) :
                                     SameShape(fed[i][n], fed[j][n])
                              /\ SameShape(fed[i][k + 1], fed[j][k]) ) =>
                                outcomes[i][k + 1].ret = outcomes[j][k].ret

\* C2 witness: one linker was fed [INSERT(attribs_follow=0), ATTRIB] and the
\* other [ATTRIB].
C2_Witness ==
    /\ Len(fed[1]) = 2 /\ Len(fed[2]) = 1
    /\ fed[1][1].kind = "INSERT" /\ fed[1][1].attribs_follow = {0}
    /\ fed[1][2].kind = "ATTRIB" /\ fed[2][1].kind = "ATTRIB"
    /\ outcomes[1][2].ret = "False"

\* C3: while a parent is open, an entity that is neither SEQEND nor the
\* expected child kind of the parent raises DXFStructureError, is passed to
\* no host and is not returned as top-level.
C3_IllegalChildRaises ==
    \A k \in 1..Len(fed[1]) :
        LET P == Before(1, k).main_entity
        IN (P /= None /\ fed[1][k].kind \notin {"SEQEND", ChildKindOf(P)}) =>
               /\ outcomes[1][k].ret = "raise"
               /\ outcomes[1][k].exc.type = "DXFStructureError"
               /\ CallsWithArg(1, k) = {}

\* C3 witness: an MTEXT without handle was fed to an open POLYLINE and a
\* POLYLINE to an open INSERT.
C3_Witness ==
    /\ Len(fed[1]) = 4
    /\ fed[1][1].kind = "POLYLINE" /\ HandlelessMText(fed[1][2])
    /\ fed[1][3].kind = "SEQEND"
    /\ fed[1][4].kind = "ATTRIB"
    /\ outcomes[1][2].ret = "raise"
    /\ outcomes[1][3].ret = "True"

\* C4: with no parent open, an MTEXT without handle is passed to link_entity
\* of the immediately preceding entity and returns True when the linker has a
\* previous entity, and raises DXFStructureError as the first entity of a
\* stream; an MTEXT with a handle is never passed to a host and, with no
\* parent open, returns False.
C4_AttachedMText ==
    \A k \in 1..Len(fed[1]) :
        /\ (HandlelessMText(fed[1][k]) /\ Before(1, k).main_entity = None) =>
               /\ (Before(1, k).prev /= None) =>
                      /\ k > 1
                      /\ outcomes[1][k].ret = "True"
                      /\ \A c \in CallsWithArg(1, k) :
                             /\ calls[1][c].host = k - 1
                             /\ calls[1][c].method = "link_entity"
                      /\ Cardinality(CallsWithArg(1, k)) = 1
               /\ (k = 1) =>
                      /\ outcomes[1][k].ret = "raise"
                      /\ outcomes[1][k].exc.type = "DXFStructureError"
                      /\ CallsWithArg(1, k) = {}
        /\ (fed[1][k].kind = "MTEXT" /\ fed[1][k].handle /= NoHandle) =>
               /\ CallsWithArg(1, k) = {}
               /\ (Before(1, k).main_entity = None) =>
                      outcomes[1][k].ret = "False"

\* C4 witness: an MTEXT without handle was attached to a SEQEND that closed a
\* parent, after an MTEXT with handle.
C4_Witness ==
    /\ Len(fed[1]) = 4
    /\ fed[1][1].kind = "MTEXT" /\ fed[1][1].handle = "H"
    /\ fed[1][2].kind = "POLYLINE"
    /\ fed[1][3].kind = "SEQEND"
    /\ HandlelessMText(fed[1][4])
    /\ outcomes[1][4].ret = "True"

\* C5: two linkers fed the same stream give the same outcomes call by call
\* (True, False or the same error at the same position) and make the same
\* link_entity/link_seqend calls on the same hosts, whatever was fed to the
\* other linker in between.
C5_Deterministic ==
    \A i \in Linkers, j \in Linkers :
        \A k \in 0..Len(fed[i]) :
            ( /\ k <= Len(fed[j])
              /\ \A n \in 1..k : fed[i][n] = fed[j][n] ) =>
                /\ \A n \in 1..k : outcomes[i][n] = outcomes[j][n]
                /\ \A n \in 1..k : after[i][n] = after[j][n]
                /\ \A n \in 1..k :
                       {calls[i][c] : c \in CallsWithArg(i, n)}
                           = {calls[j][c] : c \in CallsWithArg(j, n)}
                /\ (k = Len(fed[i]) /\ k = Len(fed[j])) => calls[i] = calls[j]

\* C5 witness: both linkers were fed [INSERT(attribs_follow=1), ATTRIB].
C5_Witness ==
    /\ Len(fed[1]) = 2 /\ fed[1] = fed[2]
    /\ fed[1][1].kind = "INSERT" /\ fed[1][1].attribs_follow = {1}
    /\ fed[1][2].kind = "ATTRIB"
    /\ Len(calls[2]) = 1

\* C6 as claimed: a stream that ends with a parent still open surfaces a
\* DXFStructureError.
C6_UnterminatedRaises ==
    (ended[1] /\ main_entity[1] /= None) =>
        \E k \in 1..Len(outcomes[1]) : outcomes[1][k].ret = "raise"

\* C6 amended: the linker raises nothing for a parent left open at the end of
\* the stream: for a stream [P, c1, ..., cn] that ends without SEQEND, P
\* returns False, every ci returns True and is linked to P, no call raises and
\* P is still the open parent when the stream has ended.
C6_UnterminatedSilent ==
    LET F == fed[1]
    IN ( /\ ended[1]
         /\ Len(F) >= 1
         /\ OpensParentShape(F[1])
         /\ \A k \in 2..Len(F) : F[k].kind = ChildKindOf(F[1]) ) =>
           /\ \A k \in 1..Len(F) : outcomes[1][k].ret /= "raise"
           /\ outcomes[1][1].ret = "False"
           /\ \A k \in 2..Len(F) : outcomes[1][k].ret = "True"
           /\ calls[1] = [k \in 1..(Len(F) - 1) |->
                             [host |-> 1, method |-> "link_entity",
                              arg |-> k + 1]]
           /\ main_entity[1] = F[1]

\* C6 witness: the stream [POLYLINE, VERTEX, VERTEX] has ended.
C6_Witness ==
    /\ ended[1]
    /\ Len(fed[1]) = 3
    /\ fed[1][1].kind = "POLYLINE"
    /\ fed[1][2].kind = "VERTEX" /\ fed[1][3].kind = "VERTEX"
    /\ main_entity[1] /= None

\* The entity kinds a message names: its pieces that are kinds.
KindsNamed(exc) ==
    {exc.text[n] : n \in 1..Len(exc.text)}
        \cap {"INSERT", "POLYLINE", "ATTRIB", "VERTEX", "SEQEND", "LINE", "MTEXT"}

\* The kinds a message names as expected: the pieces between "expected DXF
\* entity " and the end of the message.
NamedAsExpected(exc) ==
    IF exc.text /= <<>> /\ exc.text[1] = "expected DXF entity "
    THEN KindsNamed(exc)
    ELSE {}

\* C7: the DXFStructureError raised for an illegal entity while a parent is
\* open names the offending kind as the offender and the expected child kind
\* of the parent (with SEQEND) as what was expected.
C7_ErrorNamesBothKinds ==
    \A k \in 1..Len(fed[1]) :
        LET P == Before(1, k).main_entity
        IN (P /= None /\ outcomes[1][k].ret = "raise") =>
               /\ fed[1][k].kind \in KindsNamed(outcomes[1][k].exc)
               /\ fed[1][k].kind \notin NamedAsExpected(outcomes[1][k].exc)
               /\ ChildKindOf(P) \in NamedAsExpected(outcomes[1][k].exc)

\* -------------------------------------------- properties of DXFGraphic

\* The entities reachable from e through linked_entities(), e included.
LinkedReach(e) ==
    LET RECURSIVE Grow(_, _)
        Grow(S, n) ==
            IF n = 0 THEN S
            ELSE Grow(S \cup UNION {{linked[x][c] : c \in 1..Len(linked[x])} :
                                        x \in S}, n - 1)
    IN Grow({e}, NumEnts)

\* C8: set_owner(owner, paperspace) sets dxf.owner of the entity and of every
\* entity reachable through linked_entities() to owner, sets their
\* dxf.paperspace to a non-zero paperspace and removes it when paperspace is
\* 0, and changes nothing else: no other attribute, no other entity, the
\* attached entities included.
C8_SetOwnerPropagates ==
    [][lastcall'.op = "set_owner" =>
           \A x \in Ents :
               IF x \in LinkedReach(lastcall'.e)
               THEN /\ dxf'[x].owner = {lastcall'.owner}
                    /\ dxf'[x].paperspace =
                           (IF lastcall'.paperspace = 0 THEN {}
                            ELSE {lastcall'.paperspace})
                    /\ dxf'[x].layer = dxf[x].layer
                    /\ dxf'[x].color = dxf[x].color
               ELSE dxf'[x] = dxf[x]]_vars

\* C8 witness: a parent in paperspace with two linked children, one of them
\* with an attached entity, was moved to owner B in modelspace.
C8_Witness ==
    /\ lastcall.op = "set_owner" /\ lastcall.e = 1
    /\ lastcall.owner = "B" /\ lastcall.paperspace = 0
    /\ linked[1] = <<2, 3>>
    /\ \A x \in {1, 2, 3} : dxf[x].owner = {"B"} /\ dxf[x].paperspace = {}

\* The six capability-gated operations of the base class.
GeoOps == {"translate", "scale", "scale_xyz", "rotate", "transform", "to_wsc"}

\* The pieces of an exception's arguments.
Pieces(x) == {x.text[n] : n \in 1..Len(x.text)}

\* C9: each of translate, scale, scale_xyz, rotate, transform and to_wsc of
\* the base class raises DXFUnsupportedFeature carrying the DXFTYPE of the
\* entity when called with ignore=False, returns without error when called
\* with ignore=True, and either way leaves every attribute of every entity
\* and the children of every entity unchanged.
C9_GeoContract ==
    [][lastcall'.op \in GeoOps =>
           /\ lastcall'.ignore => error' = NoExc
           /\ ~lastcall'.ignore =>
                  /\ error'.type = "DXFUnsupportedFeature"
                  /\ DXFTYPE[lastcall'.e] \in Pieces(error')
           /\ dxf' = dxf
           /\ linked' = linked
           /\ attached' = attached]_vars

\* C9 witness: rotate(ignore=True) returned on an owned entity in paperspace
\* that has a linked child.
C9_Witness ==
    /\ lastcall.op = "rotate" /\ lastcall.ignore /\ lastcall.e = 1
    /\ error = NoExc
    /\ linked[1] /= <<>>
    /\ dxf[1].owner = {"A"} /\ dxf[1].paperspace = {1}

\* C10 as claimed: the DXFUnsupportedFeature raised by an unsupported
\* geometric operation names the entity kind and the attempted operation.
C10_ErrorNamesOperation ==
    (lastcall.op \in GeoOps /\ error.type = "DXFUnsupportedFeature") =>
        /\ DXFTYPE[lastcall.e] \in Pieces(error)
        /\ lastcall.op \in Pieces(error)

\* C10 amended: the DXFUnsupportedFeature raised by an unsupported geometric
\* operation has the DXFTYPE of the entity as its only argument: it names the
\* entity kind and not the operation, so the six operations raise the same
\* error on the same entity.
C10_ErrorNamesKindOnly ==
    (lastcall.op \in GeoOps /\ ~lastcall.ignore) =>
        /\ error = [type |-> "DXFUnsupportedFeature",
                    text |-> <<DXFTYPE[lastcall.e]>>]
        /\ lastcall.op \notin Pieces(error)

\* C10 witness: to_wsc(ignore=False) raised on a SeqEnd.
C10_Witness ==
    /\ lastcall.op = "to_wsc" /\ ~lastcall.ignore /\ lastcall.e = 2
    /\ error.type = "DXFUnsupportedFeature"
    /\ error.text = <<"SEQEND">>

\* -------------------------------------------------------- true color, rgb

\* ezdxf.tools.rgb: a true color value is 0x00RRGGBB.
rgb2int(value) ==
    (value[1] % 256) * 65536 + (value[2] % 256) * 256 + (value[3] % 256)

int2rgb(value) ==
    <<(value \div 65536) % 256, (value \div 256) % 256, value % 256>>

Components == {0, 1, 255}

RGBs == Components \X Components \X Components

\* AutoCAD color indexes, 256 is BYLAYER.
ColorIndexes == {1, 7, 256}

\* The property rgb: {} is None.
rgb ==
    IF NsHas(ns, "true_color")
    THEN {int2rgb(value) : value \in NsGet(ns, "true_color")}
    ELSE {}

\* The setter of rgb writing the color index of the nearest ACI color too.
rgb_setterWithColor(value) ==
    /\ ns' = NsSet(NsSet(ns, "true_color", rgb2int(value)), "color", 7)
    /\ assigned' = [assigned EXCEPT !.op = "rgb", !.rgb = {value}]
    /\ UNCHANGED <<processor, tagwriter, logged, audited, linkerVars, gfxVars>>

\* The setter of rgb.
rgb_setter(value) ==
    /\ ns' = NsSet(ns, "true_color", rgb2int(value))
    /\ assigned' = [assigned EXCEPT !.op = "rgb", !.rgb = {value}]
    /\ UNCHANGED <<processor, tagwriter, logged, audited, linkerVars, gfxVars>>

\* dxf.color = value.
color_setter(value) ==
    /\ ns' = NsSet(ns, "color", value)
    /\ assigned' = [assigned EXCEPT !.op = "color", !.color = {value}]
    /\ UNCHANGED <<processor, tagwriter, logged, audited, linkerVars, gfxVars>>

\* A new entity: DEFAULT_ATTRIBS only.
InitColor ==
    /\ InitLinker
    /\ GfxIdle
    /\ ns = <<[name |-> "layer", value |-> "0"]>>
    /\ processor = NotLoaded
    /\ tagwriter = NoWriter
    /\ logged = <<>>
    /\ assigned = NoAssignment
    /\ audited = <<>>

NextColor ==
    \/ \E value \in RGBs : rgb_setter(value)
    \/ \E value \in ColorIndexes : color_setter(value)

SpecColor == InitColor /\ [][NextColor]_vars

\* ------------------------------------------------------------------ audit

\* What a check of the auditor finds: nothing, a fault it reports, or a fault
\* it repairs.
AuditResults == {"ok", "fault", "fixed"}

\* The calls of audit, in the order of its statements.
AuditChecklist ==
    <<[call |-> "super().audit", zero_pointer_valid |-> {}],
      [call |-> "check_for_valid_layer_name", zero_pointer_valid |-> {}],
      [call |-> "check_if_linetype_exists", zero_pointer_valid |-> {}],
      [call |-> "check_for_valid_color_index", zero_pointer_valid |-> {}],
      [call |-> "check_pointer_target_exists", zero_pointer_valid |-> {FALSE}]>>

AuditCall(n, found) ==
    [call |-> AuditChecklist[n].call,
     zero_pointer_valid |-> AuditChecklist[n].zero_pointer_valid,
     found |-> found[n]]

\* audit that returns after the first check that found a fault.
auditUntilFault(found) ==
    /\ audited = <<>>
    /\ LET faults == {n \in 1..Len(AuditChecklist) : found[n] /= "ok"}
           last == IF faults = {} THEN Len(AuditChecklist)
                   ELSE CHOOSE n \in faults : \A m \in faults : n <= m
       IN audited' = [n \in 1..last |-> AuditCall(n, found)]
    /\ UNCHANGED <<ns, processor, tagwriter, logged, assigned, linkerVars,
                   gfxVars>>

\* DXFGraphic.audit(auditor); found is what each call finds.
audit(found) ==
    /\ audited = <<>>
    /\ audited' = [n \in 1..Len(AuditChecklist) |-> AuditCall(n, found)]
    /\ UNCHANGED <<ns, processor, tagwriter, logged, assigned, linkerVars,
                   gfxVars>>

InitCodec == InitLinker /\ GfxIdle /\ AcdbIdle

\* The processors a new entity is loaded from.
Processors ==
    {NoProcessor} \union
    {SubclassProcessor(tags, r12) : tags \in TagLists, r12 \in BOOLEAN}

NextCodec ==
    \/ processor = NotLoaded /\ \E p \in Processors : load_dxf_attribs(p)
    \/ \E n \in 1..Len(DXFVersions) : export_acdb_entity(DXFVersions[n])

SpecCodec == InitCodec /\ [][NextCodec]_vars

InitAudit == InitColor

NextAudit ==
    \E found \in [1..Len(AuditChecklist) -> AuditResults] : audit(found)

SpecAudit == InitAudit /\ [][NextAudit]_vars

\* ------------------------------------- further properties of the linker

\* C16 as claimed: after every call of the linker, whichever branch was taken,
\* a branch that raises included, the previous entity of the linker is the
\* entity just fed.
C16_PrevAlwaysFed ==
    \A k \in 1..Len(fed[1]) : after[1][k].prev = fed[1][k]

\* C16 amended: after every call of the linker that returns (child linked,
\* parent closed by SEQEND, parent opened, flagless INSERT, attached MTEXT,
\* ordinary entity), the previous entity of the linker is the entity just fed;
\* a call that raises DXFStructureError leaves the previous entity as it was.
C16_PrevAfterReturn ==
    /\ \A k \in 1..Len(fed[1]) :
           IF outcomes[1][k].ret = "raise"
           THEN after[1][k].prev = Before(1, k).prev
           ELSE after[1][k].prev = fed[1][k]
    /\ Len(fed[1]) >= 1 => prev[1] = after[1][Len(fed[1])].prev

\* C16 witness: a parent was opened, a child linked, an illegal entity
\* rejected and the parent closed.
C16_Witness ==
    /\ Len(fed[1]) = 4
    /\ fed[1][1].kind = "POLYLINE" /\ fed[1][2].kind = "VERTEX"
    /\ fed[1][3].kind = "LINE" /\ fed[1][4].kind = "SEQEND"
    /\ outcomes[1][3].ret = "raise"
    /\ prev[1] = fed[1][4]

\* C17: with no parent open, a SEQEND, an ATTRIB or a VERTEX returns False,
\* raises nothing, is passed to no host and opens no parent, at the start of a
\* stream, after a closed parent and after a flagless INSERT alike.
C17_FallThrough ==
    \A k \in 1..Len(fed[1]) :
        ( /\ Before(1, k).main_entity = None
          /\ fed[1][k].kind \in {"SEQEND", "ATTRIB", "VERTEX"} ) =>
            /\ outcomes[1][k].ret = "False"
            /\ outcomes[1][k].exc = NoExc
            /\ CallsWithArg(1, k) = {}
            /\ after[1][k].main_entity = None

\* C17 witness: a SEQEND opened the stream, a second one closed a parent and
\* a VERTEX followed.
C17_Witness ==
    /\ Len(fed[1]) = 4
    /\ fed[1][1].kind = "SEQEND" /\ fed[1][2].kind = "POLYLINE"
    /\ fed[1][3].kind = "SEQEND" /\ fed[1][4].kind = "VERTEX"
    /\ outcomes[1][1].ret = "False"
    /\ outcomes[1][4].ret = "False"

\* C18: a call that raises DXFStructureError leaves main_entity, expected and
\* prev as they were and passes its entity to no host; after an illegal
\* entity was rejected while a parent was open, an expected child or a SEQEND
\* that follows is linked to that same parent; after an MTEXT without handle
\* was rejected as first entity, a second one is rejected again.
C18_RaiseKeepsState ==
    \A k \in 1..Len(fed[1]) :
        (outcomes[1][k].ret = "raise") =>
            /\ after[1][k] = Before(1, k)
            /\ CallsWithArg(1, k) = {}
            /\ (Len(fed[1]) > k /\ Before(1, k).main_entity /= None
                /\ fed[1][k + 1].kind
                       \in {"SEQEND", ChildKindOf(Before(1, k).main_entity)}) =>
                   /\ outcomes[1][k + 1].ret = "True"
                   /\ \E c \in CallsWithArg(1, k + 1) :
                          calls[1][c].host = Before(1, k).main_entity.id
            /\ (Len(fed[1]) > k /\ k = 1 /\ HandlelessMText(fed[1][1])
                /\ HandlelessMText(fed[1][2])) =>
                   outcomes[1][2].ret = "raise"

\* C18 witness: an INSERT was opened, a VERTEX rejected, an ATTRIB linked.
C18_Witness ==
    /\ Len(fed[1]) = 3
    /\ fed[1][1].kind = "INSERT" /\ fed[1][2].kind = "VERTEX"
    /\ fed[1][3].kind = "ATTRIB"
    /\ outcomes[1][2].ret = "raise"
    /\ outcomes[1][3].ret = "True"

\* The k-th call of linker i opened a parent.
Opened(i, k) == OpensParentShape(fed[i][k]) /\ outcomes[i][k].ret = "False"

\* C19: in every reachable state the open parent, if there is one (the linker
\* holds at most one), is an INSERT whose attribs_follow flag is set or a
\* POLYLINE, the expected child kind is ATTRIB for an INSERT and VERTEX for a
\* POLYLINE, and the open parent is the entity that opened a parent last and
\* has not been followed by a SEQEND; when every entity that opened a parent
\* has been followed by a SEQEND, no parent is open.
C19_OpenParentInvariant ==
    LET F == fed[1]
        Unclosed == {k \in 1..Len(F) :
                         /\ Opened(1, k)
                         /\ \A n \in (k + 1)..Len(F) : F[n].kind /= "SEQEND"}
    IN /\ main_entity[1] /= None =>
              /\ OpensParentShape(main_entity[1])
              /\ expected[1] = ChildKindOf(main_entity[1])
              /\ main_entity[1].id \in Unclosed
              /\ main_entity[1] = F[main_entity[1].id]
              /\ \A k \in Unclosed : k <= main_entity[1].id
       /\ Cardinality(Unclosed) <= 1
       /\ main_entity[1] = None => Unclosed = {}

\* C19 witness: an INSERT was closed, a POLYLINE is open and a second
\* POLYLINE was rejected.
C19_Witness ==
    /\ Len(fed[1]) = 4
    /\ fed[1][1].kind = "INSERT" /\ fed[1][2].kind = "SEQEND"
    /\ fed[1][3].kind = "POLYLINE" /\ fed[1][4].kind = "POLYLINE"
    /\ main_entity[1] = fed[1][3]
    /\ expected[1] = "VERTEX"

\* The entity of the k-th call is handed to a host: a parent was open on
\* entry, or it is an MTEXT without handle and the linker has a previous
\* entity.
ChildCase(i, k) ==
    \/ Before(i, k).main_entity /= None
    \/ HandlelessMText(fed[i][k]) /\ Before(i, k).prev /= None

\* C20 as claimed: every call that returns True has handed its entity to one
\* host by one call, every call that returns False to none, and a call
\* returns True exactly when a parent was open on entry or the entity is an
\* MTEXT without handle with a preceding entity.
C20_TrueExactlyWhenChild ==
    \A k \in 1..Len(fed[1]) :
        /\ outcomes[1][k].ret = "True" => Cardinality(CallsWithArg(1, k)) = 1
        /\ outcomes[1][k].ret = "False" => CallsWithArg(1, k) = {}
        /\ outcomes[1][k].ret = "True" <=> ChildCase(1, k)

\* C20 amended: every call that returns True has handed its entity to one
\* host by one call (link_seqend or link_entity of the open parent, or
\* link_entity of the previous entity for an MTEXT without handle), every
\* call that returns False or raises has handed its entity to no host, and a
\* call that returns returns True exactly when a parent was open on entry or
\* the entity is an MTEXT without handle with a preceding entity.
C20_NoEntityLostOrTwice ==
    \A k \in 1..Len(fed[1]) :
        /\ outcomes[1][k].ret = "True" =>
               /\ Cardinality(CallsWithArg(1, k)) = 1
               /\ \A c \in CallsWithArg(1, k) :
                      IF Before(1, k).main_entity /= None
                      THEN /\ calls[1][c].host = Before(1, k).main_entity.id
                           /\ calls[1][c].method =
                                  (IF fed[1][k].kind = "SEQEND"
                                   THEN "link_seqend" ELSE "link_entity")
                      ELSE /\ calls[1][c].host = Before(1, k).prev.id
                           /\ calls[1][c].method = "link_entity"
        /\ outcomes[1][k].ret /= "True" => CallsWithArg(1, k) = {}
        /\ outcomes[1][k].ret /= "raise" =>
               (outcomes[1][k].ret = "True" <=> ChildCase(1, k))

\* C20 witness: a child and a SEQEND were linked to a parent and an MTEXT
\* without handle to the SEQEND.
C20_Witness ==
    /\ Len(fed[1]) = 4
    /\ fed[1][1].kind = "POLYLINE" /\ fed[1][2].kind = "VERTEX"
    /\ fed[1][3].kind = "SEQEND" /\ HandlelessMText(fed[1][4])
    /\ Len(calls[1]) = 3

\* ------------------------------------ properties of the AcDbEntity subclass

\* The group code an attribute of AcDbEntity is stored under.
CodeOf(name) == acdb_entity.attribs[name].code

\* The tags of the attributes of AcDbEntity that a processor held.
KnownTags(tags) == SelectSeq(tags, LAMBDA t : t.code \in KnownCodes)

UnknownTags(tags) == SelectSeq(tags, LAMBDA t : t.code \in UnknownCodes)

\* C11: export_acdb_entity writes the subclass marker (SUBCLASS_MARKER,
\* 'AcDbEntity') once and before every attribute tag exactly when the
\* version of the tagwriter is newer than DXF12; the attribute tags follow in
\* the order layer, linetype, material_handle, color, paperspace, lineweight,
\* ltscale, true_color, color_name, transparency, plotstyle_handle,
\* shadow_mode whatever the order the values were stored in; an attribute
\* that is absent and optional, or newer than the version, gets no tag.
C11_SubclassExport ==
    tagwriter /= NoWriter =>
        LET out == tagwriter.tags
            v == tagwriter.dxfversion
            markers == {n \in 1..Len(out) : out[n].code = SUBCLASS_MARKER}
            order == <<"layer", "linetype", "material_handle", "color",
                       "paperspace", "lineweight", "ltscale", "true_color",
                       "color_name", "transparency", "plotstyle_handle",
                       "shadow_mode">>
            Place(code) == {k \in 1..Len(order) : CodeOf(order[k]) = code}
        IN /\ IF Newer(v, DXF12)
              THEN markers = {1} /\ out[1].value = "AcDbEntity"
              ELSE markers = {}
           /\ \A n \in 1..Len(out) : n \notin markers => Place(out[n].code) /= {}
           /\ \A m, n \in 1..Len(out) :
                  (m < n /\ m \notin markers /\ n \notin markers) =>
                      \A k \in Place(out[m].code), l \in Place(out[n].code) :
                          k < l
           /\ \A name \in DOMAIN acdb_entity.attribs :
                  ( \/ ~NsHas(ns, name) /\ acdb_entity.attribs[name].optional
                    \/ Newer(acdb_entity.attribs[name].dxfversion, v) ) =>
                      \A n \in 1..Len(out) : out[n].code /= CodeOf(name)
           /\ \A k \in 1..Len(order) :
                  ( /\ NsHas(ns, order[k])
                    /\ ~Newer(acdb_entity.attribs[order[k]].dxfversion, v) ) =>
                      \E n \in 1..Len(out) :
                          /\ out[n].code = CodeOf(order[k])
                          /\ NsGet(ns, order[k]) = {out[n].value}

\* C11 witness: true_color, color and layer were stored in this order and
\* exported for DXF2000 as marker, layer, color.
C11_Witness ==
    /\ tagwriter.dxfversion = "DXF2000"
    /\ Len(ns) = 3
    /\ ns[1].name = "true_color" /\ ns[2].name = "color" /\ ns[3].name = "layer"
    /\ Len(tagwriter.tags) = 3
    /\ tagwriter.tags[1] = Tag(SUBCLASS_MARKER, "AcDbEntity")
    /\ tagwriter.tags[2].code = CodeOf("layer")
    /\ tagwriter.tags[3].code = CodeOf("color")

\* C12 as claimed: load_dxf_attribs followed by export_acdb_entity writes,
\* for every attribute of AcDbEntity the processor held a tag of (layer,
\* linetype, color, paperspace, lineweight, ltscale, invisible, true_color,
\* color_name, transparency, shadow_mode, material_handle, plotstyle_handle)
\* and that is not newer than the version of the tagwriter, a tag of its
\* group code with the value loaded: no such attribute is lost.
C12_RoundTrip ==
    (processor.given = "yes" /\ tagwriter /= NoWriter) =>
        \A n \in 1..Len(processor.tags) :
            \A name \in NamesOfCode(acdb_entity, processor.tags[n].code) :
                ~Newer(acdb_entity.attribs[name].dxfversion,
                       tagwriter.dxfversion) =>
                    \E k \in 1..Len(tagwriter.tags) :
                        tagwriter.tags[k] = processor.tags[n]

\* C13 as claimed: loading tags of unknown group codes raises nothing and
\* stores the known attributes as it would without them, and in every load,
\* R12 included, the unknown tags are passed to log_unprocessed_tags once,
\* and nothing is passed when there are none.
C13_UnknownTagsAlwaysLogged ==
    processor.given = "yes" =>
        /\ error = NoExc
        /\ ns = StoreTags(<<>>, KnownTags(processor.tags), acdb_entity)
        /\ logged = IF UnknownTags(processor.tags) = <<>> THEN <<>>
                    ELSE <<[tags |-> UnknownTags(processor.tags),
                            subclass |-> "AcDbEntity"]>>

\* C13 amended: loading tags of unknown group codes raises nothing and
\* stores the known attributes as it would without them; when the processor
\* is not of an R12 document the unknown tags are passed to
\* log_unprocessed_tags once, in one call naming AcDbEntity, and nothing
\* is passed when there are none; for an R12 document nothing is passed.
C13_UnknownTagsLoggedUnlessR12 ==
    processor.given = "yes" =>
        /\ error = NoExc
        /\ \A n \in 1..Len(ns) :
               \E k \in 1..Len(processor.tags) :
                   /\ ns[n].name \in NamesOfCode(acdb_entity, processor.tags[k].code)
                   /\ ns[n].value = processor.tags[k].value
        /\ Len(ns) = Len(KnownTags(processor.tags))
        /\ ns = StoreTags(<<>>, KnownTags(processor.tags), acdb_entity)
        /\ logged = IF UnknownTags(processor.tags) = <<>> \/ processor.r12
                    THEN <<>>
                    ELSE <<[tags |-> UnknownTags(processor.tags),
                            subclass |-> "AcDbEntity"]>>

\* C13 witness: an R12 entity was loaded from a layer tag between two
\* unknown tags.
C13_Witness ==
    /\ processor.given = "yes" /\ processor.r12
    /\ Len(processor.tags) = 3
    /\ processor.tags[1].code \in UnknownCodes
    /\ processor.tags[2].code = CodeOf("layer")
    /\ processor.tags[3].code \in UnknownCodes
    /\ Len(ns) = 1
    /\ logged = <<>>

\* The names stored in a namespace.
NsNames(d) == {d[n].name : n \in 1..Len(d)}

\* C14: the getter of rgb returns None exactly when dxf.true_color is unset,
\* whatever dxf.color holds, and the decoded (r, g, b) otherwise; the setter
\* writes dxf.true_color only and leaves dxf.color and every other attribute
\* as they were; after any sequence of rgb and color assignments each getter
\* returns the value last written to its own slot.
C14_RgbIndependentOfColor ==
    [][ /\ (rgb = {}) <=> ~NsHas(ns, "true_color")
        /\ (rgb' = {}) <=> ~NsHas(ns', "true_color")
        /\ rgb' = assigned'.rgb
        /\ NsGet(ns', "color") = assigned'.color
        /\ assigned'.op = "rgb" =>
               /\ NsNames(ns') = NsNames(ns) \union {"true_color"}
               /\ \A name \in NsNames(ns) \ {"true_color"} :
                      NsGet(ns', name) = NsGet(ns, name)
        /\ assigned'.op = "color" =>
               /\ NsNames(ns') = NsNames(ns) \union {"color"}
               /\ \A name \in NsNames(ns) \ {"color"} :
                      NsGet(ns', name) = NsGet(ns, name) ]_vars

\* C14 witness: the color index was set to 7, then rgb to (255, 0, 1).
C14_Witness ==
    /\ assigned.op = "rgb"
    /\ Len(ns) = 3
    /\ ns[2] = [name |-> "color", value |-> 7]
    /\ ns[3].name = "true_color"
    /\ rgb = {<<255, 0, 1>>}

\* C15: audit calls the four checks of the auditor once each and in the
\* order layer name, linetype, color index, owner pointer (the zero pointer
\* not valid), all of them after the audit of the parent class, and a check
\* is made whatever the checks before it reported or repaired.
C15_AuditChecklist ==
    audited /= <<>> =>
        /\ [n \in 1..Len(audited) |-> audited[n].call] =
               <<"super().audit", "check_for_valid_layer_name",
                 "check_if_linetype_exists", "check_for_valid_color_index",
                 "check_pointer_target_exists">>
        /\ audited[Len(audited)].zero_pointer_valid = {FALSE}

\* C15 witness: the layer name was repaired, a missing linetype reported,
\* and the color index and the owner pointer were checked all the same.
C15_Witness ==
    /\ Len(audited) = Len(AuditChecklist)
    /\ audited[2].found = "fixed"
    /\ audited[3].found = "fault"
    /\ audited[4].call = "check_for_valid_color_index"

====
